---- MODULE Spec2Model ----
(***************************************************************************)
(* Model of backend/app/utils/table_dependency.py (TableDependencyMap):    *)
(* the dependency map built from schema introspection, the truncation      *)
(* order resolver, the cycle detector and the order verifier.              *)
(*                                                                         *)
(* Table names are opaque to the code (only equality and the position in   *)
(* the introspected list matter), so they are the integers 1..n, listed in *)
(* that order, and Init ranges over every foreign-key graph on them: every *)
(* pairing of a graph shape with a table-list order is one of these        *)
(* graphs.  0 is a name that is in no map.                                 *)
(*                                                                         *)
(* Model of backend/app/database/retry_handler.py: the retry wrapper       *)
(* (retry_database_operation), the timeout wrapper (with_timeout) and      *)
(* their composition (safe_db_operation).  Delays are whole multiples of   *)
(* a time unit; the timeout and the elapsed time are counted in units of   *)
(* 1/2000 s, so that int(timeout * 1000) truncates; a delay of d is d s.   *)
(*                                                                         *)
(* Model of backend/app/database/cleanup.py: truncate_tables, statement by *)
(* statement, on the connection of one engine.begin() block, and           *)
(* verify_clean_state on the contents of a database.                       *)
(*                                                                         *)
(* Model of backend/app/database/connection.py (DatabaseSession): `with`   *)
(* blocks entered one after the other, each on a session of its own whose  *)
(* commit and rollback may fail.                                           *)
(***************************************************************************)
EXTENDS Integers, Sequences, FiniteSets, TLC

\* Largest number of tables in an introspected schema.
MaxTables == 4
\* Largest number of distinct foreign-key edges in a schema.
MaxFks == 4
\* Largest schema on which arbitrary candidate orders are verified.
MaxVerifyTables == 2
\* Largest schema on which the resolver's loop is followed to its end under fairness.
MaxLoopTables == 3
\* Largest table list and longest foreign-key list of one table handed to the builder.
MaxBuildTables == 2
MaxFkList == 2
\* Largest max_retries, largest initial_delay and max_delay, largest backoff_factor.
MaxRetries == 3
MaxDelay == 3
MaxBackoff == 2
\* Largest schema handed to truncate_tables: tables and foreign keys.
MaxCleanTables == 3
MaxCleanFks == 2
\* Largest row count and sequence value, and largest number of sequences,
\* in a database handed to verify_clean_state.
MaxCount == 2
MaxSequences == 2
\* Largest number of DatabaseSession contexts entered one after the other.
MaxContexts == 3
\* Largest schema of a map whose methods are called one after the other:
\* tables and foreign keys; and the largest number of such calls.
MaxCallTables == 3
MaxCallFks == 2
MaxCalls == 2
\* Largest number of table names, and of different names, in the list of a
\* truncate_tables marker.
MaxMarkerTables == 2

VARIABLES
    inspector_foreign_keys,\* inspector.get_foreign_keys: table -> referenced tables, as listed
    build_error,           \* exception that ended _build_dependencies ("none": it completed)
    tables,                \* self.tables: the introspected table list
    dependencies,          \* self.dependencies: table -> tables it references
    reverse_dependencies,  \* self.reverse_dependencies: table -> tables referencing it
    pc,                    \* "new": before _build_dependencies; "idle": map built;
                           \* "loop", "done": inside and after get_truncation_order;
                           \* "verified": its result was verified; "checked": a
                           \* caller-supplied order was verified; "found":
                           \* _find_circular_dependencies was called on its own;
                           \* "asked": get_dependent_tables was called
    remaining_deps,        \* get_truncation_order: working copy of dependencies
    ordered_tables,        \* get_truncation_order: tables emitted so far
    forced,                \* get_truncation_order: the last round was a cycle-breaking one
    truncation_order,      \* value returned by get_truncation_order
    order,                 \* argument of the last verify_truncation_order call
    circular_deps,         \* set computed by _find_circular_dependencies in that call
    verify_result,         \* value returned by that call (FALSE before any call)
    cfg,                   \* decorator arguments: mode ("retry": retry_database_operation,
                           \* "timeout": with_timeout, "safe": safe_db_operation, "off"),
                           \* max_retries, initial_delay, max_delay, backoff_factor,
                           \* timeout, has_session (args[0] is a Session)
    wpc,                   \* the wrapper call: "off", "running", "returned", "raised"
    attempt,               \* retry wrapper: loop variable
    delay,                 \* retry wrapper: next sleep duration
    last_exception,        \* retry wrapper: last transient failure
    func_result,           \* what the latest invocation of the wrapped function did
    events,                \* invocations, sleeps and statements executed, in order
    outcome,               \* what the caller gets: a value or an exception
    clock,                 \* time.time(), in 1/2000 s since the decorated function was called
    start_time,            \* with_timeout wrapper: start_time of its latest call
    cpc,                   \* verify_clean_state: "off", "ready", "reported";
                           \* truncate_tables: "off", "ready" (not called yet),
                           \* "planned" (before engine.begin()), "begun" (inside
                           \* it), "loop" (the for loop), "truncated" (after it),
                           \* "done", "failed" (it raised)
    table_names,           \* truncate_tables: table_names, once None is replaced
    tables_to_truncate,    \* truncate_tables: the requested tables and their dependents
    next_table,            \* truncate_tables: position of the for loop in truncation_order
    statements,            \* what conn.execute was given, in order
    tx,                    \* the engine.begin() transaction: "none", "open",
                           \* "committed", "rolled_back"
    row_counts,            \* the database: table -> SELECT COUNT(*) of it
    sequences,             \* the database: last_value of each public sequence
    search_path,           \* the database: SHOW search_path, a string of characters
    results,               \* verify_clean_state: the dictionary it returns
    spc,                   \* DatabaseSession: "off"; "out": outside a with block;
                           \* "in": inside its body; "leaving": the body is over
    sessions,              \* one record per context entered: the exception its body
                           \* ended with, the calls made on its session (method and
                           \* result) and what its __exit__ let reach the caller
    dependents_of,         \* argument of the last get_dependent_tables call
    dependent_tables,      \* value returned by that call
    calls,                 \* number of method calls made on the map, one after the other
    fpc,                   \* _cleanup_fixture: "off"; "setup": before the yield;
                           \* "body": the test runs; "teardown": after the yield;
                           \* "finished"; "error": the cleaning before the test raised
    markers,               \* the markers of the test: clean_before, clean_after, and
                           \* truncate_tables (present or not, and its args)
    fixture_events         \* the cleaning calls made and the test body, in order

vars == <<inspector_foreign_keys, build_error, tables, dependencies, reverse_dependencies,
          pc, remaining_deps, ordered_tables, forced, truncation_order, order,
          circular_deps, verify_result, cfg, wpc, attempt, delay, last_exception,
          func_result, events, outcome, clock, start_time,
          cpc, table_names, tables_to_truncate, next_table, statements, tx,
          row_counts, sequences, search_path, results, spc, sessions,
          dependents_of, dependent_tables, calls, fpc, markers, fixture_events>>

wrapVars == <<cfg, wpc, attempt, delay, last_exception, func_result, events, outcome,
              clock, start_time>>

callVars == <<dependents_of, dependent_tables, calls>>

fixtureVars == <<fpc, markers, fixture_events>>

tableVars == <<inspector_foreign_keys, build_error, tables, dependencies,
               reverse_dependencies, pc, remaining_deps, ordered_tables, forced,
               truncation_order, order, circular_deps, verify_result, callVars,
               fixtureVars>>

truncVars == <<cpc, table_names, tables_to_truncate, next_table, statements, tx>>

contentVars == <<row_counts, sequences, search_path, results>>

sessVars == <<spc, sessions>>

dbVars == <<truncVars, contentVars, sessVars>>

mapVars == <<inspector_foreign_keys, build_error, tables, dependencies, reverse_dependencies>>

NoName == 0

\* ------------------------------------------------------------------------
\* Helpers on sequences and sets
\* ------------------------------------------------------------------------
Range(s) == {s[i] : i \in 1..Len(s)}

\* mutant: the emitted list is returned without being reversed
Reverse_Identity(s) == s

Reverse(s) == [i \in 1..Len(s) |-> s[Len(s) + 1 - i]]

Min(S) == CHOOSE x \in S : \A y \in S : x <= y

\* all the orders in which a set can be iterated
RECURSIVE Perms(_)
Perms(S) ==
    IF S = {} THEN {<<>>}
    ELSE UNION {{<<x>> \o p : p \in Perms(S \ {x})} : x \in S}

\* first position of x in s (list.index); 0 when absent
RECURSIVE IndexFrom(_, _, _)
IndexFrom(s, x, i) ==
    IF i > Len(s) THEN 0
    ELSE IF s[i] = x THEN i
    ELSE IndexFrom(s, x, i + 1)

Index(s, x) == IndexFrom(s, x, 1)

\* ------------------------------------------------------------------------
\* _build_dependencies
\* ------------------------------------------------------------------------
\* mutant: the reverse edge is filed under the referencing table
AddForeignKey_ReverseUnderSource(m, table, referenced_table) ==
    IF m.raised # "none" THEN m
    ELSE [m EXCEPT !.dependencies[table] = @ \cup {referenced_table},
                   !.reverse_dependencies[table] = @ \cup {referenced_table}]

\* One foreign key of `table`: the forward map gets the edge, then the reverse
\* map, whose lookup of a table that is no key raises KeyError and ends the build.
AddForeignKey(m, table, referenced_table) ==
    IF m.raised # "none" THEN m
    ELSE IF referenced_table \notin DOMAIN m.reverse_dependencies
    THEN [m EXCEPT !.dependencies[table] = @ \cup {referenced_table},
                   !.raised = "KeyError"]
    ELSE [m EXCEPT !.dependencies[table] = @ \cup {referenced_table},
                   !.reverse_dependencies[referenced_table] = @ \cup {table}]

RECURSIVE AddForeignKeys(_, _, _, _)
AddForeignKeys(m, table, fks, i) ==
    IF i > Len(fks) THEN m
    ELSE AddForeignKeys(AddForeignKey(m, table, fks[i]), table, fks, i + 1)

RECURSIVE BuildFrom(_, _, _, _)
BuildFrom(m, tbls, foreign_keys, i) ==
    IF i > Len(tbls) THEN m
    ELSE BuildFrom(AddForeignKeys(m, tbls[i], foreign_keys[tbls[i]], 1),
                   tbls, foreign_keys, i + 1)

BuildDependencies(tbls, foreign_keys) ==
    BuildFrom([dependencies |-> [t \in Range(tbls) |-> {}],
               reverse_dependencies |-> [t \in Range(tbls) |-> {}],
               raised |-> "none"],
              tbls, foreign_keys, 1)

\* ------------------------------------------------------------------------
\* get_truncation_order
\* ------------------------------------------------------------------------
\* keys of the working dict, in dict (insertion) order
Keys(rem) == SelectSeq(tables, LAMBDA t : t \in DOMAIN rem)

\* mutant: a table with one outstanding dependency passes for independent
IndependentTables_AtMostOne(rem) ==
    SelectSeq(Keys(rem), LAMBDA t : Cardinality(rem[t]) <= 1)

IndependentTables(rem) == SelectSeq(Keys(rem), LAMBDA t : rem[t] = {})

MinDeps(rem) == Min({Cardinality(rem[t]) : t \in {u \in DOMAIN rem : rem[u] # {}}})

\* mutant: "fewer than the minimum" selects no table at all
FewestDepsTables_Strict(rem) ==
    SelectSeq(Keys(rem), LAMBDA t : Cardinality(rem[t]) < MinDeps(rem))

\* mutant: only the table named in the warning, independent_tables[0]
FewestDepsTables_FirstOnly(rem) ==
    SubSeq(SelectSeq(Keys(rem), LAMBDA t : Cardinality(rem[t]) = MinDeps(rem)), 1, 1)

FewestDepsTables(rem) ==
    SelectSeq(Keys(rem), LAMBDA t : Cardinality(rem[t]) = MinDeps(rem))

\* the tables handled in one round of the while loop
RoundTables(rem) ==
    IF IndependentTables(rem) # <<>> THEN IndependentTables(rem)
    ELSE FewestDepsTables(rem)

\* pop(table), then discard it from every remaining dependency set
PopTable(rem, table) ==
    [t \in DOMAIN rem \ {table} |-> rem[t] \ {table}]

\* mutant: the round's tables replace the emitted list instead of extending it
EmitTables_Overwrite(st, ts, i) ==
    [ordered |-> ts,
     remaining |-> [t \in DOMAIN st.remaining \ Range(ts) |-> st.remaining[t] \ Range(ts)]]

RECURSIVE EmitTables(_, _, _)
EmitTables(st, ts, i) ==
    IF i > Len(ts) THEN st
    ELSE EmitTables([ordered |-> Append(st.ordered, ts[i]),
                     remaining |-> PopTable(st.remaining, ts[i])], ts, i + 1)

\* ------------------------------------------------------------------------
\* _find_circular_dependencies
\* ------------------------------------------------------------------------
\* The orders in which `for dep_table in self.dependencies[t]` can run:
\* one permutation of each dependency set, indexed like `tables`.
RECURSIVE IterOrdersUpTo(_)
IterOrdersUpTo(i) ==
    IF i = 0 THEN {<<>>}
    ELSE {Append(f, p) : f \in IterOrdersUpTo(i - 1),
                         p \in Perms(dependencies[tables[i]])}

IterOrders == IterOrdersUpTo(Len(tables))

SelfReferences == {<<t, t>> : t \in {u \in Range(tables) : u \in dependencies[u]}}

\* mutant: the first edge of the cycle is left out
CycleEdges_SkipFirst(path, current_table) ==
    LET cycle == Append(SubSeq(path, Index(path, current_table), Len(path)),
                        current_table)
    IN  {<<cycle[i], cycle[i + 1]>> : i \in 2..(Len(cycle) - 1)}
            \cup {<<cycle[Len(cycle)], cycle[1]>>}

\* edges of the cycle found when current_table is met again on the path
CycleEdges(path, current_table) ==
    LET cycle == Append(SubSeq(path, Index(path, current_table), Len(path)),
                        current_table)
    IN  {<<cycle[i], cycle[i + 1]>> : i \in 1..(Len(cycle) - 1)}
            \cup {<<cycle[Len(cycle)], cycle[1]>>}

RECURSIVE dfs(_, _, _)
RECURSIVE dfsEach(_, _, _, _)
dfs(st, current_table, io) ==
    IF Index(st.path, current_table) # 0
    THEN [st EXCEPT !.circular = @ \cup CycleEdges(st.path, current_table)]
    ELSE IF current_table \in st.visited THEN st
    ELSE LET entered == [st EXCEPT !.visited = @ \cup {current_table},
                                   !.path = Append(@, current_table)]
             explored == dfsEach(entered, io[Index(tables, current_table)], 1, io)
         IN  [explored EXCEPT !.path = SubSeq(@, 1, Len(@) - 1)]

dfsEach(st, deps, i, io) ==
    IF i > Len(deps) THEN st
    ELSE dfsEach(dfs(st, deps[i], io), deps, i + 1, io)

AlreadyInCycle(circ, start_table) ==
    \E other \in Range(tables) : <<start_table, other>> \in circ

RECURSIVE FindFrom(_, _, _)
FindFrom(circ, i, io) ==
    IF i > Len(tables) THEN circ
    ELSE IF AlreadyInCycle(circ, tables[i]) THEN FindFrom(circ, i + 1, io)
    ELSE FindFrom(dfs([visited |-> {}, path |-> <<>>, circular |-> circ],
                      tables[i], io).circular,
                  i + 1, io)

\* mutant: pairs of a table with itself are dropped from the result
FindCircularDependencies_NoSelf(io) ==
    {e \in FindFrom(SelfReferences, 1, io) : e[1] # e[2]}

FindCircularDependencies(io) == FindFrom(SelfReferences, 1, io)

\* ------------------------------------------------------------------------
\* verify_truncation_order
\* ------------------------------------------------------------------------
\* mutant: the forward map is consulted instead of the reverse one
ReverseDepsGet_Forward(table) ==
    IF table \in DOMAIN dependencies THEN dependencies[table] ELSE {}

ReverseDepsGet(table) ==
    IF table \in DOMAIN reverse_dependencies THEN reverse_dependencies[table] ELSE {}

\* mutant: circular edges are not exempted
Problematic_NoExemption(ord, circ, processed, table) ==
    \E dependent_table \in ReverseDepsGet(table) :
        /\ dependent_table \notin processed
        /\ dependent_table \in Range(ord)

\* the table at position i is reached while a dependent is still unprocessed
Problematic(ord, circ, processed, table) ==
    \E dependent_table \in ReverseDepsGet(table) :
        /\ <<dependent_table, table>> \notin circ
        /\ dependent_table \notin processed
        /\ dependent_table \in Range(ord)

RECURSIVE CheckEach(_, _, _, _)
CheckEach(ord, circ, processed, i) ==
    IF i > Len(ord) THEN TRUE
    ELSE IF Problematic(ord, circ, processed, ord[i]) THEN FALSE
    ELSE CheckEach(ord, circ, processed \cup {ord[i]}, i + 1)

\* mutant: only names outside the map are caught, a missing table is not
VerifyTruncationOrder_NoMissingCheck(ord, circ) ==
    IF ~(Range(ord) \subseteq Range(tables)) THEN FALSE
    ELSE CheckEach(ord, circ, {}, 1)

VerifyTruncationOrder(ord, circ) ==
    IF Range(ord) # Range(tables) THEN FALSE
    ELSE CheckEach(ord, circ, {}, 1)

\* ------------------------------------------------------------------------
\* Inputs
\* ------------------------------------------------------------------------
TableList(n) == [i \in 1..n |-> i]

\* the n*n possible foreign keys, numbered 0..n*n-1: number c stands for
\* "table c \div n + 1 references table c % n + 1"
Edge(n, c) == <<(c \div n) + 1, (c % n) + 1>>

\* introspection's get_foreign_keys for a set of edges: the referenced tables
\* of each table, listed in ascending order
RECURSIVE SetToSeq(_)
SetToSeq(S) == IF S = {} THEN <<>> ELSE <<Min(S)>> \o SetToSeq(S \ {Min(S)})

ForeignKeys(n, E) ==
    [t \in 1..n |-> SetToSeq({Edge(n, c)[2] : c \in {d \in E : Edge(n, d)[1] = t}})]

\* candidate orders handed to verify_truncation_order: every sequence of
\* table names and the unknown name, up to one longer than the table list
RECURSIVE SeqsUpTo(_, _)
SeqsUpTo(S, k) ==
    IF k = 0 THEN {<<>>}
    ELSE SeqsUpTo(S, k - 1) \cup {Append(s, x) : s \in {q \in SeqsUpTo(S, k - 1) : Len(q) = k - 1}, x \in S}

Candidates == SeqsUpTo(Range(tables) \cup {NoName}, Len(tables) + 1)

\* ------------------------------------------------------------------------
\* State machine
\* ------------------------------------------------------------------------
\* the map built from n tables and the foreign keys numbered in E
MapBuilt(n, E) ==
    LET m == BuildDependencies(TableList(n), ForeignKeys(n, E))
    IN  /\ inspector_foreign_keys = ForeignKeys(n, E)
        /\ build_error = m.raised
        /\ tables = TableList(n)
        /\ dependencies = m.dependencies
        /\ reverse_dependencies = m.reverse_dependencies

\* the map of a schema whose foreign keys are E and at most k more, all
\* numbered from `from` up: every set of foreign keys is reached once
RECURSIVE SchemaWith(_, _, _, _)
SchemaWith(n, E, from, k) ==
    \/ MapBuilt(n, E)
    \/ /\ k > 0
       /\ \E c \in from..(n * n - 1) : SchemaWith(n, E \cup {c}, c + 1, k - 1)

\* no exception
NoException == [cls |-> "none"]

\* no decorated function is being called
WrapOff ==
    /\ cfg = [mode |-> "off"]
    /\ wpc = "off"
    /\ attempt = 0
    /\ delay = 0
    /\ last_exception = NoException
    /\ func_result = [kind |-> "none"]
    /\ events = <<>>
    /\ outcome = [kind |-> "none"]
    /\ clock = 0
    /\ start_time = 0

\* truncate_tables has not run
NotTruncating ==
    /\ table_names = <<>>
    /\ tables_to_truncate = {}
    /\ next_table = 0
    /\ statements = <<>>
    /\ tx = "none"

\* verify_clean_state has not run, and the contents are not looked at
NotVerifying ==
    /\ row_counts = <<>>
    /\ sequences = <<>>
    /\ search_path = <<>>
    /\ results = <<>>

\* no DatabaseSession is in use
NoSession ==
    /\ spc = "off"
    /\ sessions = <<>>

\* no cleanup function is being called
DbOff ==
    /\ cpc = "off"
    /\ NotTruncating
    /\ NotVerifying
    /\ NoSession

\* no test is using the cleanup fixture
NoFixture ==
    /\ fpc = "off"
    /\ markers = <<>>
    /\ fixture_events = <<>>

\* get_dependent_tables has not been called, and no call is counted
NoCalls ==
    /\ dependents_of = NoName
    /\ dependent_tables = {}
    /\ calls = 0

\* the map is built and none of its methods has been called
MapIdle ==
    /\ NoCalls
    /\ NoFixture
    /\ pc = "idle"
    /\ remaining_deps = <<>>
    /\ ordered_tables = <<>>
    /\ forced = FALSE
    /\ truncation_order = <<>>
    /\ order = <<>>
    /\ circular_deps = {}
    /\ verify_result = FALSE

Idle ==
    /\ WrapOff
    /\ DbOff
    /\ NoCalls
    /\ NoFixture
    /\ pc = "idle"
    /\ remaining_deps = <<>>
    /\ ordered_tables = <<>>
    /\ forced = FALSE
    /\ truncation_order = <<>>
    /\ order = <<>>
    /\ circular_deps = {}
    /\ verify_result = FALSE

Init ==
    /\ \E n \in 0..MaxTables : SchemaWith(n, {}, 0, MaxFks)
    /\ Idle

\* before _build_dependencies has run: nothing introspected, maps empty
BuildInit ==
    /\ WrapOff
    /\ DbOff
    /\ NoCalls
    /\ NoFixture
    /\ pc = "new"
    /\ inspector_foreign_keys = <<>>
    /\ build_error = "none"
    /\ tables = <<>>
    /\ dependencies = <<>>
    /\ reverse_dependencies = <<>>
    /\ remaining_deps = <<>>
    /\ ordered_tables = <<>>
    /\ forced = FALSE
    /\ truncation_order = <<>>
    /\ order = <<>>
    /\ circular_deps = {}
    /\ verify_result = FALSE

LoopInit ==
    /\ \E n \in 0..MaxLoopTables : SchemaWith(n, {}, 0, MaxFks)
    /\ Idle

\* get_truncation_order, up to the first test of the while loop
GetTruncationOrder ==
    /\ pc = "idle"
    /\ pc' = "loop"
    /\ remaining_deps' = dependencies
    /\ ordered_tables' = <<>>
    /\ forced' = FALSE
    /\ truncation_order' = <<>>
    /\ order' = <<>>
    /\ circular_deps' = {}
    /\ verify_result' = FALSE
    /\ UNCHANGED mapVars
    /\ UNCHANGED <<wrapVars, callVars, fixtureVars>>
    /\ UNCHANGED dbVars

\* one round of the while loop
Round ==
    /\ pc = "loop"
    /\ DOMAIN remaining_deps # {}
    /\ LET st == EmitTables([ordered |-> ordered_tables, remaining |-> remaining_deps],
                            RoundTables(remaining_deps), 1)
       IN  /\ ordered_tables' = st.ordered
           /\ remaining_deps' = st.remaining
    /\ forced' = (IndependentTables(remaining_deps) = <<>>)
    /\ UNCHANGED <<mapVars, pc, truncation_order, order, circular_deps, verify_result>>
    /\ UNCHANGED <<wrapVars, callVars, fixtureVars>>
    /\ UNCHANGED dbVars

\* the loop ends and the reversed list is returned
Return ==
    /\ pc = "loop"
    /\ DOMAIN remaining_deps = {}
    /\ pc' = "done"
    /\ truncation_order' = Reverse(ordered_tables)
    /\ UNCHANGED <<mapVars, remaining_deps, ordered_tables, forced, order,
                   circular_deps, verify_result>>
    /\ UNCHANGED <<wrapVars, callVars, fixtureVars>>
    /\ UNCHANGED dbVars

\* verify_truncation_order(order), _find_circular_dependencies included
Verify(ord) ==
    \E io \in IterOrders :
        LET circ == FindCircularDependencies(io)
        IN  /\ order' = ord
            /\ circular_deps' = IF Range(ord) # Range(tables) THEN {} ELSE circ
            /\ verify_result' = VerifyTruncationOrder(ord, circ)

\* _find_circular_dependencies called on its own
FindCircular ==
    /\ pc = "idle"
    /\ \E io \in IterOrders : circular_deps' = FindCircularDependencies(io)
    /\ pc' = "found"
    /\ UNCHANGED <<mapVars, remaining_deps, ordered_tables, forced, truncation_order,
                   order, verify_result>>
    /\ UNCHANGED <<wrapVars, callVars, fixtureVars>>
    /\ UNCHANGED dbVars

\* __init__ / _build_dependencies on what the inspector reports: the table
\* list and, per table, the referenced table of each foreign key (a table
\* may be referenced several times, and a referenced name may be in no list)
Build ==
    /\ pc = "new"
    /\ \E n \in 0..MaxBuildTables :
          \E fks \in [1..n -> SeqsUpTo(0..n, MaxFkList)] :
             LET m == BuildDependencies(TableList(n), fks)
             IN  /\ inspector_foreign_keys' = fks
                 /\ tables' = TableList(n)
                 /\ dependencies' = m.dependencies
                 /\ reverse_dependencies' = m.reverse_dependencies
                 /\ build_error' = m.raised
                 /\ pc' = IF m.raised = "none" THEN "idle" ELSE "failed"
    /\ UNCHANGED <<remaining_deps, ordered_tables, forced, truncation_order, order,
                   circular_deps, verify_result>>
    /\ UNCHANGED <<wrapVars, callVars, fixtureVars>>
    /\ UNCHANGED dbVars

\* verify_truncation_order on the list get_truncation_order returned
VerifyResolved ==
    /\ pc = "done"
    /\ Verify(truncation_order)
    /\ pc' = "verified"
    /\ UNCHANGED <<mapVars, remaining_deps, ordered_tables, forced, truncation_order>>
    /\ UNCHANGED <<wrapVars, callVars, fixtureVars>>
    /\ UNCHANGED dbVars

\* verify_truncation_order on a caller-supplied list
VerifyCandidate ==
    /\ pc = "idle"
    /\ Len(tables) <= MaxVerifyTables
    /\ \E ord \in Candidates : Verify(ord)
    /\ pc' = "checked"
    /\ UNCHANGED <<mapVars, remaining_deps, ordered_tables, forced, truncation_order>>
    /\ UNCHANGED <<wrapVars, callVars, fixtureVars>>
    /\ UNCHANGED dbVars

Next ==
    \/ GetTruncationOrder
    \/ Round
    \/ Return
    \/ VerifyResolved
    \/ VerifyCandidate
    \/ FindCircular

Spec == Init /\ [][Next]_vars

\* get_truncation_order alone: a call that has started runs its loop to the
\* end (the code is sequential and nothing else can take a step in between)
LoopNext ==
    \/ GetTruncationOrder
    \/ Round
    \/ Return

LoopSpec == LoopInit /\ [][LoopNext]_vars /\ WF_vars(Round) /\ WF_vars(Return)

\* construction of a TableDependencyMap
BuildNext == Build

BuildSpec == BuildInit /\ [][BuildNext]_vars

\* ------------------------------------------------------------------------
\* retry_handler.py
\* ------------------------------------------------------------------------
\* Exception classes the wrapped function raises, each with the classes it
\* is an instance of (the sqlalchemy.exc hierarchy: the four DatabaseError
\* subclasses are DBAPIError instances; "Exception" is any other exception)
ExceptionClasses ==
    {"OperationalError", "IntegrityError", "DBAPIError", "ProgrammingError",
     "DataError", "Exception"}

InstanceOf(cls) ==
    IF cls \in {"OperationalError", "IntegrityError", "ProgrammingError", "DataError"}
    THEN {cls, "DBAPIError"}
    ELSE {cls}

RETRIABLE_EXCEPTIONS == {"OperationalError", "IntegrityError", "DBAPIError"}

NON_RETRIABLE_EXCEPTIONS == {"ProgrammingError", "DataError"}

\* isinstance(e, classes)
IsInstance(e, classes) == InstanceOf(e.cls) \cap classes # {}

\* an exception object: class, the invocation that raised it (-1: raised by
\* a wrapper), whether its text contains "timeout", and its __cause__
Exc(cls, id, timeout_text, cause) ==
    [cls |-> cls, id |-> id, timeout_text |-> timeout_text, cause |-> cause]

\* values the wrapped function returns
Values == {"v1", "v2"}

\* what one invocation of the wrapped function can do, and how long it
\* takes compared with the timeout t
FuncResults(id, t) ==
    {[kind |-> "value", value |-> v, elapsed |-> el] : v \in Values, el \in {t, t + 1}}
    \cup {[kind |-> "error", exc |-> Exc(c, id, txt, NoException), elapsed |-> el] :
              c \in ExceptionClasses, txt \in BOOLEAN, el \in {t, t + 1}}

\* int(timeout * 1000), the timeout being counted in 1/2000 s
TimeoutMs(t) == (t * 1000) \div 2000

\* mutant: the elapsed time is never looked at
WithTimeoutResult_NoElapsedCheck(r, t) ==
    IF r.kind = "value" THEN [kind |-> "value", value |-> r.value]
    ELSE [kind |-> "error", exc |-> r.exc]

\* with_timeout's wrapper around an invocation that did r: what it returns or raises
WithTimeoutResult(r, t) ==
    IF r.kind = "value" THEN [kind |-> "value", value |-> r.value]
    ELSE IF r.exc.timeout_text THEN [kind |-> "error", exc |-> r.exc]
    ELSE IF r.elapsed > t
    THEN [kind |-> "error", exc |-> Exc("DatabaseTimeoutError", -1, FALSE, r.exc)]
    ELSE [kind |-> "error", exc |-> r.exc]

\* mutant: the time is taken once, when the decorated function is called
StartTime_OfFirstAttempt(now) == 0

\* start_time = time.time(), on entry to with_timeout's wrapper
StartTime(now) == now

\* the invocation that did r, with time.time() - start_time as with_timeout
\* reads it in its except clause: the invocation began at `now`
Measured(r, start, now) == [r EXCEPT !.elapsed = (now + r.elapsed) - start]

\* statements with_timeout executes before the invocation
TimeoutSetup(c) ==
    IF c.has_session THEN <<[kind |-> "set_timeout", ms |-> TimeoutMs(c.timeout)]>>
    ELSE <<>>

\* mutant: an exception in neither tuple is retried
Classify_UnexpectedRetried(e) ==
    IF IsInstance(e, NON_RETRIABLE_EXCEPTIONS) THEN "non_retriable"
    ELSE "retriable"

\* mutant: the retriable test comes first
Classify_RetriableFirst(e) ==
    IF IsInstance(e, RETRIABLE_EXCEPTIONS) THEN "retriable"
    ELSE IF IsInstance(e, NON_RETRIABLE_EXCEPTIONS) THEN "non_retriable"
    ELSE "unexpected"

\* the except clause of the retry wrapper: the non-retriable test comes first
Classify(e) ==
    IF IsInstance(e, NON_RETRIABLE_EXCEPTIONS) THEN "non_retriable"
    ELSE IF ~IsInstance(e, RETRIABLE_EXCEPTIONS) THEN "unexpected"
    ELSE "retriable"

\* mutant: no sleep at all
ShouldSleep_Never(att, c) == att < 0

\* mutant: a sleep follows the final attempt too
ShouldSleep_Always(att, c) == att <= c.max_retries

\* "Don't sleep on the last attempt"
ShouldSleep(att, c) == att < c.max_retries

\* delay = min(delay * backoff_factor, max_delay)
NextDelay(d, c) ==
    IF d * c.backoff_factor <= c.max_delay THEN d * c.backoff_factor ELSE c.max_delay

\* what the retry wrapper's func(*args, **kwargs) does when the decorated
\* function does r: in combined mode func is the with_timeout wrapper
Invoked(r, c) ==
    IF c.mode = "safe" THEN WithTimeoutResult(r, c.timeout)
    ELSE IF r.kind = "value" THEN [kind |-> "value", value |-> r.value]
    ELSE [kind |-> "error", exc |-> r.exc]

CallEvent(att, res) ==
    [kind |-> "call", attempt |-> att,
     result |-> IF res.kind = "value" THEN "returned" ELSE Classify(res.exc)]

\* decorator arguments: the timeout is 1.5 ms or 1 s
Timeouts == {3, 2000}

RetryConfigs ==
    [mode : {"retry"}, max_retries : -1..MaxRetries, initial_delay : 1..MaxDelay,
     max_delay : 1..MaxDelay, backoff_factor : 1..MaxBackoff,
     timeout : {2000}, has_session : {FALSE}]

SafeConfigs ==
    [mode : {"safe"}, max_retries : -1..MaxRetries, initial_delay : 1..MaxDelay,
     max_delay : 1..MaxDelay, backoff_factor : 1..MaxBackoff,
     timeout : Timeouts, has_session : BOOLEAN]

TimeoutConfigs ==
    [mode : {"timeout"}, max_retries : {0}, initial_delay : {1},
     max_delay : {1}, backoff_factor : {1},
     timeout : Timeouts, has_session : BOOLEAN]

\* a decorated function is called: the wrapper's locals are initialised
WrapInit ==
    /\ cfg \in RetryConfigs \cup SafeConfigs \cup TimeoutConfigs
    /\ wpc = "running"
    /\ attempt = 0
    /\ delay = cfg.initial_delay
    /\ last_exception = NoException
    /\ func_result = [kind |-> "none"]
    /\ events = <<>>
    /\ outcome = [kind |-> "none"]
    /\ clock = 0
    /\ start_time = 0
    /\ DbOff
    /\ NoCalls
    /\ NoFixture
    /\ pc = "new"
    /\ inspector_foreign_keys = <<>>
    /\ build_error = "none"
    /\ tables = <<>>
    /\ dependencies = <<>>
    /\ reverse_dependencies = <<>>
    /\ remaining_deps = <<>>
    /\ ordered_tables = <<>>
    /\ forced = FALSE
    /\ truncation_order = <<>>
    /\ order = <<>>
    /\ circular_deps = {}
    /\ verify_result = FALSE

\* one iteration of `for attempt in range(max_retries + 1)`
RetryAttempt ==
    /\ wpc = "running"
    /\ cfg.mode \in {"retry", "safe"}
    /\ attempt <= cfg.max_retries
    /\ \E r \in FuncResults(attempt, cfg.timeout) :
          LET start == IF cfg.mode = "safe" THEN StartTime(clock) ELSE start_time
              res == Invoked(Measured(r, start, clock), cfg)
              called == events \o (IF cfg.mode = "safe" THEN TimeoutSetup(cfg) ELSE <<>>)
                               \o <<CallEvent(attempt, res)>>
          IN  /\ func_result' = r
              /\ start_time' = start
              /\ IF res.kind = "value"
                 THEN /\ wpc' = "returned"
                      /\ outcome' = [kind |-> "value", value |-> res.value]
                      /\ events' = called
                      /\ clock' = clock + r.elapsed
                      /\ UNCHANGED <<attempt, delay, last_exception>>
                 ELSE IF Classify(res.exc) # "retriable"
                 THEN /\ wpc' = "raised"
                      /\ outcome' = [kind |-> "error", exc |-> res.exc]
                      /\ events' = called
                      /\ clock' = clock + r.elapsed
                      /\ UNCHANGED <<attempt, delay, last_exception>>
                 ELSE /\ last_exception' = res.exc
                      /\ IF ShouldSleep(attempt, cfg)
                         THEN /\ events' = Append(called, [kind |-> "sleep", seconds |-> delay])
                              /\ clock' = clock + r.elapsed + delay * 2000
                              /\ delay' = NextDelay(delay, cfg)
                         ELSE /\ events' = called
                              /\ clock' = clock + r.elapsed
                              /\ UNCHANGED delay
                      /\ attempt' = attempt + 1
                      /\ UNCHANGED <<wpc, outcome>>
    /\ UNCHANGED <<cfg, tableVars, dbVars>>

\* the loop is over without a return: the statements after it
RetryExhausted ==
    /\ wpc = "running"
    /\ cfg.mode \in {"retry", "safe"}
    /\ attempt > cfg.max_retries
    /\ wpc' = "raised"
    /\ outcome' = IF last_exception # NoException
                  THEN [kind |-> "error",
                        exc |-> Exc("MaxRetriesExceededError", -1, FALSE, last_exception)]
                  ELSE [kind |-> "error",
                        exc |-> Exc("RuntimeError", -1, FALSE, NoException)]
    /\ UNCHANGED <<cfg, attempt, delay, last_exception, func_result, events, clock,
                   start_time, tableVars, dbVars>>

\* a call of a function decorated with with_timeout alone
TimedCall ==
    /\ wpc = "running"
    /\ cfg.mode = "timeout"
    /\ \E r \in FuncResults(0, cfg.timeout) :
          LET start == StartTime(clock)
              res == WithTimeoutResult(Measured(r, start, clock), cfg.timeout)
          IN  /\ func_result' = r
              /\ start_time' = start
              /\ clock' = clock + r.elapsed
              /\ events' = events \o TimeoutSetup(cfg) \o <<CallEvent(0, res)>>
              /\ wpc' = IF res.kind = "value" THEN "returned" ELSE "raised"
              /\ outcome' = res
    /\ UNCHANGED <<cfg, attempt, delay, last_exception, tableVars, dbVars>>

WrapNext ==
    \/ RetryAttempt
    \/ RetryExhausted
    \/ TimedCall

WrapSpec == WrapInit /\ [][WrapNext]_vars

\* ------------------------------------------------------------------------
\* cleanup.py: truncate_tables
\* ------------------------------------------------------------------------
\* get_truncation_order as one call: the while loop run from (rem, ordered)
\* to its end, and the reversed list
RECURSIVE ResolveFrom(_, _)
ResolveFrom(rem, ordered) ==
    IF DOMAIN rem = {} THEN Reverse(ordered)
    ELSE LET st == EmitTables([ordered |-> ordered, remaining |-> rem],
                              RoundTables(rem), 1)
         IN  ResolveFrom(st.remaining, st.ordered)

\* get_dependent_tables: the worklist loop (the order in which the list is
\* worked off does not change the set it ends with)
RECURSIVE DependentsFrom(_, _)
DependentsFrom(result, to_process) ==
    IF to_process = {} THEN result
    ELSE LET current == CHOOSE t \in to_process : TRUE
         IN  IF current \in result
             THEN DependentsFrom(result, to_process \ {current})
             ELSE DependentsFrom(result \cup {current},
                                 (to_process \ {current})
                                     \cup (ReverseDepsGet(current) \ (result \cup {current})))

\* mutant: the worklist is not worked off, the direct dependents are returned
GetDependentTables_DirectOnly(table) ==
    IF table \notin DOMAIN reverse_dependencies THEN {}
    ELSE reverse_dependencies[table]

GetDependentTables(table) ==
    IF table \notin DOMAIN reverse_dependencies THEN {}
    ELSE DependentsFrom({}, reverse_dependencies[table])

\* tables_to_truncate: set(table_names), updated with each table's dependents
WithDependents(names) ==
    Range(names) \cup UNION {GetDependentTables(names[i]) : i \in 1..Len(names)}

\* mutant: the loop runs through the resolver's order from its end
PlannedOrder_Backwards(names) ==
    Reverse(IF Len(names) < Len(tables)
            THEN SelectSeq(ResolveFrom(dependencies, <<>>),
                           LAMBDA t : t \in WithDependents(names))
            ELSE ResolveFrom(dependencies, <<>>))

\* truncation_order: the resolver's order, filtered when fewer names than
\* tables were given
PlannedOrder(names) ==
    IF Len(names) < Len(tables)
    THEN SelectSeq(ResolveFrom(dependencies, <<>>), LAMBDA t : t \in WithDependents(names))
    ELSE ResolveFrom(dependencies, <<>>)

\* mutant: constraint checking is switched to immediate before the loop
DeferConstraints_Immediate == [sql |-> "SET CONSTRAINTS ALL IMMEDIATE"]

DeferConstraints == [sql |-> "SET CONSTRAINTS ALL DEFERRED"]

RestoreConstraints == [sql |-> "SET CONSTRAINTS ALL IMMEDIATE"]

TruncateTable(table) == [sql |-> "TRUNCATE", table |-> table]

\* `if table in table_names`
IsRequested(table, names) == table \in Range(names)

\* the table_names arguments: every set of tables, listed in table order
Requests == {SetToSeq(S) : S \in SUBSET Range(tables)}

\* the database truncate_tables is called on, as get_dependency_map maps it
CleanInit ==
    /\ \E n \in 0..MaxCleanTables : SchemaWith(n, {}, 0, MaxCleanFks)
    /\ WrapOff
    /\ cpc = "ready"
    /\ NotTruncating
    /\ NotVerifying
    /\ NoSession
    /\ MapIdle

\* the exception of a failed conn.execute leaves the engine.begin() block
Rollback ==
    /\ tx' = "rolled_back"
    /\ cpc' = "failed"

\* truncate_tables up to the engine.begin() block: the order is planned
TruncateTables ==
    /\ cpc = "ready"
    /\ \E given \in BOOLEAN : \E names \in Requests :
          LET requested == IF given THEN names ELSE tables
          IN  /\ table_names' = requested
              /\ tables_to_truncate' = IF Len(requested) < Len(tables)
                                       THEN WithDependents(requested) ELSE {}
              /\ truncation_order' = PlannedOrder(requested)
    /\ cpc' = "planned"
    /\ UNCHANGED <<next_table, statements, tx>>
    /\ UNCHANGED <<contentVars, sessVars>>
    /\ UNCHANGED <<mapVars, pc, remaining_deps, ordered_tables, forced, order,
                   circular_deps, verify_result, callVars, fixtureVars>>
    /\ UNCHANGED wrapVars

\* with engine.begin() as conn
Begin ==
    /\ cpc = "planned"
    /\ cpc' = "begun"
    /\ tx' = "open"
    /\ UNCHANGED <<table_names, tables_to_truncate, next_table, statements>>
    /\ UNCHANGED <<contentVars, sessVars>>
    /\ UNCHANGED <<tableVars, wrapVars>>

\* conn.execute(text("SET CONSTRAINTS ALL DEFERRED"))
SetDeferred ==
    /\ cpc = "begun"
    /\ statements' = Append(statements, DeferConstraints)
    /\ \E ok \in BOOLEAN :
          IF ok THEN cpc' = "loop" /\ next_table' = 1 /\ UNCHANGED tx
          ELSE Rollback /\ UNCHANGED next_table
    /\ UNCHANGED <<table_names, tables_to_truncate>>
    /\ UNCHANGED <<contentVars, sessVars>>
    /\ UNCHANGED <<tableVars, wrapVars>>

\* one iteration of `for table in truncation_order`
TruncateNext ==
    /\ cpc = "loop"
    /\ next_table <= Len(truncation_order)
    /\ LET table == truncation_order[next_table]
       IN  IF IsRequested(table, table_names)
           THEN /\ statements' = Append(statements, TruncateTable(table))
                /\ \E ok \in BOOLEAN :
                      IF ok THEN next_table' = next_table + 1 /\ UNCHANGED <<cpc, tx>>
                      ELSE Rollback /\ UNCHANGED next_table
           ELSE /\ next_table' = next_table + 1
                /\ UNCHANGED <<statements, cpc, tx>>
    /\ UNCHANGED <<table_names, tables_to_truncate>>
    /\ UNCHANGED <<contentVars, sessVars>>
    /\ UNCHANGED <<tableVars, wrapVars>>

\* conn.execute(text("SET CONSTRAINTS ALL IMMEDIATE")), after the loop
SetImmediate ==
    /\ cpc = "loop"
    /\ next_table > Len(truncation_order)
    /\ statements' = Append(statements, RestoreConstraints)
    /\ \E ok \in BOOLEAN :
          IF ok THEN cpc' = "truncated" /\ UNCHANGED tx
          ELSE Rollback
    /\ UNCHANGED <<table_names, tables_to_truncate, next_table>>
    /\ UNCHANGED <<contentVars, sessVars>>
    /\ UNCHANGED <<tableVars, wrapVars>>

\* the engine.begin() block is left without an exception: commit
Commit ==
    /\ cpc = "truncated"
    /\ \E ok \in BOOLEAN :
          IF ok THEN tx' = "committed" /\ cpc' = "done"
          ELSE Rollback
    /\ UNCHANGED <<table_names, tables_to_truncate, next_table, statements>>
    /\ UNCHANGED <<contentVars, sessVars>>
    /\ UNCHANGED <<tableVars, wrapVars>>

CleanNext ==
    \/ TruncateTables
    \/ Begin
    \/ SetDeferred
    \/ TruncateNext
    \/ SetImmediate
    \/ Commit

CleanSpec == CleanInit /\ [][CleanNext]_vars

\* ------------------------------------------------------------------------
\* cleanup.py: verify_clean_state
\* ------------------------------------------------------------------------
\* the loop over expected_tables: some COUNT(*) is positive
SomeTableHasRows(counts) == \E table \in Range(tables) : counts[table] > 0

\* mutant: only a value above 1 counts as not reset
SomeSequenceNotReset_Above(seqs) == \E i \in 1..Len(seqs) : seqs[i] > 1

\* the loop over the pg_sequences rows: some last_value != 1
SomeSequenceNotReset(seqs) == \E i \in 1..Len(seqs) : seqs[i] # 1

\* needle in haystack, for strings
Contains(haystack, needle) ==
    \E i \in 0..(Len(haystack) - Len(needle)) :
        SubSeq(haystack, i + 1, i + Len(needle)) = needle

Public == <<"p", "u", "b", "l", "i", "c">>

\* mutant: the field is false when the map holds no table
TablesExist_WhenSome(expected_tables) == expected_tables # {}

\* results["tables_exist"]: set when the dictionary is made; step 1 collects
\* expected_tables and tests nothing
TablesExist(expected_tables) == TRUE

\* the dictionary verify_clean_state returns
VerifyResults(counts, seqs, path) ==
    [tables_exist |-> TablesExist(Range(tables)),
     tables_empty |-> ~SomeTableHasRows(counts),
     sequences_reset |-> ~SomeSequenceNotReset(seqs),
     settings_correct |-> Contains(path, Public)]

\* search paths: public; "$user", public; private; publi; the empty string;
\* republic
SearchPaths ==
    {Public,
     <<"$", "u", "s", "e", "r", ",", " ">> \o Public,
     <<"p", "r", "i", "v", "a", "t", "e">>,
     <<"p", "u", "b", "l", "i">>,
     <<>>,
     <<"r", "e">> \o Public}

\* a database: its tables (no foreign key matters here), their row counts,
\* the last values of its sequences and its search path
VerifyInit ==
    /\ \E n \in 0..MaxCleanTables :
          /\ MapBuilt(n, {})
          /\ row_counts \in [1..n -> 0..MaxCount]
    /\ sequences \in SeqsUpTo(0..MaxCount, MaxSequences)
    /\ search_path \in SearchPaths
    /\ results = <<>>
    /\ cpc = "ready"
    /\ NotTruncating
    /\ NoSession
    /\ MapIdle
    /\ WrapOff

VerifyCleanState ==
    /\ cpc = "ready"
    /\ results' = VerifyResults(row_counts, sequences, search_path)
    /\ cpc' = "reported"
    /\ UNCHANGED <<table_names, tables_to_truncate, next_table, statements, tx,
                   row_counts, sequences, search_path>>
    /\ UNCHANGED <<tableVars, wrapVars, sessVars>>

VerifyNext == VerifyCleanState

VerifySpec == VerifyInit /\ [][VerifyNext]_vars

\* ------------------------------------------------------------------------
\* cleanup.py: clean_database
\* ------------------------------------------------------------------------
\* row counts after truncate_tables(engine) has committed: every table of
\* the map received a TRUNCATE
Truncated(counts) == [t \in DOMAIN counts |-> 0]

\* last values the sequences can show after TRUNCATE ... RESTART IDENTITY and
\* ALTER SEQUENCE ... RESTART WITH 1: a restarted sequence reports 1, or no
\* value (0 here) until it is used, as the database chooses
Restarted(seqs) == [1..Len(seqs) -> {0, 1}]

\* clean_database: truncate_tables, reset_sequences, verify_clean_state. The
\* first may raise and roll back; the second may raise after the first has
\* committed; otherwise the report of the third is returned
CleanDatabase ==
    /\ cpc = "ready"
    /\ \/ /\ cpc' = "failed"
          /\ UNCHANGED <<row_counts, sequences, results>>
       \/ /\ cpc' = "failed"
          /\ row_counts' = Truncated(row_counts)
          /\ sequences' \in Restarted(sequences)
          /\ UNCHANGED results
       \/ /\ cpc' = "reported"
          /\ row_counts' = Truncated(row_counts)
          /\ sequences' \in Restarted(sequences)
          /\ results' = VerifyResults(row_counts', sequences', search_path)
    /\ UNCHANGED <<table_names, tables_to_truncate, next_table, statements, tx,
                   search_path>>
    /\ UNCHANGED <<tableVars, wrapVars, sessVars>>

\* a database on which verify_clean_state or clean_database is called
ReportNext ==
    \/ VerifyCleanState
    \/ CleanDatabase

ReportSpec == VerifyInit /\ [][ReportNext]_vars

\* ------------------------------------------------------------------------
\* connection.py: DatabaseSession
\* ------------------------------------------------------------------------
\* an exception: its class and the code that raised it
Error(cls, origin) == [cls |-> cls, origin |-> origin]

NoError == Error("none", "none")

\* a call made on the session and how it ended ("ok" or an exception class)
Call(method, result) == [method |-> method, result |-> result]

\* what the body of a with block can end with
BodyErrors == {NoError, Error("ValueError", "body"), Error("SQLAlchemyError", "body")}

\* how session.commit() and session.rollback() can end
CommitResults == {"ok", "SQLAlchemyError", "Exception"}

RollbackResults == {"ok", "SQLAlchemyError"}

\* self.session.close(), and then __exit__ returns None: the exception of
\* the body, if any, goes on to the caller
CloseSession(st, exc) ==
    [calls |-> Append(st.calls, Call("close", "ok")), raised |-> exc]

\* mutant: the transaction is committed although the body raised
ExitOnException_Commits(exc, rb) ==
    CloseSession([calls |-> <<Call("commit", "ok")>>], exc)

\* __exit__ with exc_type set: rollback, then close
ExitOnException(exc, rb) ==
    IF rb = "ok" THEN CloseSession([calls |-> <<Call("rollback", rb)>>], exc)
    ELSE [calls |-> <<Call("rollback", rb)>>, raised |-> Error(rb, "rollback")]

\* __exit__ with exc_type None: commit; on SQLAlchemyError rollback and
\* re-raise; then close
ExitNormally(c, rb) ==
    IF c = "ok" THEN CloseSession([calls |-> <<Call("commit", c)>>], NoError)
    ELSE IF c # "SQLAlchemyError"
    THEN [calls |-> <<Call("commit", c)>>, raised |-> Error(c, "commit")]
    ELSE IF rb = "ok"
    THEN [calls |-> <<Call("commit", c), Call("rollback", rb)>>,
          raised |-> Error(c, "commit")]
    ELSE [calls |-> <<Call("commit", c), Call("rollback", rb)>>,
          raised |-> Error(rb, "rollback")]

ExitSession(exc, c, rb) ==
    IF exc # NoError THEN ExitOnException(exc, rb) ELSE ExitNormally(c, rb)

\* no context has been entered yet
SessionInit ==
    /\ spc = "out"
    /\ sessions = <<>>
    /\ cpc = "off"
    /\ NotTruncating
    /\ NotVerifying
    /\ WrapOff
    /\ NoCalls
    /\ NoFixture
    /\ pc = "new"
    /\ inspector_foreign_keys = <<>>
    /\ build_error = "none"
    /\ tables = <<>>
    /\ dependencies = <<>>
    /\ reverse_dependencies = <<>>
    /\ remaining_deps = <<>>
    /\ ordered_tables = <<>>
    /\ forced = FALSE
    /\ truncation_order = <<>>
    /\ order = <<>>
    /\ circular_deps = {}
    /\ verify_result = FALSE

\* __enter__: a new session from the factory
Enter ==
    /\ spc = "out"
    /\ Len(sessions) < MaxContexts
    /\ spc' = "in"
    /\ sessions' = Append(sessions, [state |-> "active", body |-> NoError,
                                      calls |-> <<>>, raised |-> NoError])
    /\ UNCHANGED <<truncVars, contentVars, tableVars, wrapVars>>

\* the body of the with block ends, normally or with an exception
Body ==
    /\ spc = "in"
    /\ spc' = "leaving"
    /\ \E exc \in BodyErrors :
          sessions' = [sessions EXCEPT ![Len(sessions)].body = exc]
    /\ UNCHANGED <<truncVars, contentVars, tableVars, wrapVars>>

\* __exit__(exc_type, exc_val, exc_tb)
Exit ==
    /\ spc = "leaving"
    /\ spc' = "out"
    /\ \E c \in CommitResults : \E rb \in RollbackResults :
          LET st == ExitSession(sessions[Len(sessions)].body, c, rb)
          IN  sessions' = [sessions EXCEPT ![Len(sessions)].state = "exited",
                                          ![Len(sessions)].calls = st.calls,
                                          ![Len(sessions)].raised = st.raised]
    /\ UNCHANGED <<truncVars, contentVars, tableVars, wrapVars>>

SessionNext ==
    \/ Enter
    \/ Body
    \/ Exit

SessionSpec == SessionInit /\ [][SessionNext]_vars

\* ------------------------------------------------------------------------
\* Vocabulary of the properties
\* ------------------------------------------------------------------------
Returned == pc \in {"done", "verified"}

\* tables reachable from t through one or more dependency edges
RECURSIVE Closure(_)
Closure(S) ==
    LET more == S \cup UNION {dependencies[t] : t \in S}
    IN  IF more = S THEN S ELSE Closure(more)

Reachable(t) == Closure(dependencies[t])

OnCycle(t) == t \in Reachable(t)

Acyclic == \A t \in Range(tables) : ~OnCycle(t)

IsPermutationOfTables(s) ==
    /\ Len(s) = Len(tables)
    /\ \A t \in Range(tables) : Cardinality({i \in 1..Len(s) : s[i] = t}) = 1

Before(s, y, x) == Index(s, y) # 0 /\ Index(s, x) # 0 /\ Index(s, y) < Index(s, x)

\* C1: whatever the map (acyclic, self-referencing or cyclic), the sequence
\* get_truncation_order returns holds every table of the map exactly once
\* and no other name.
C1_OrderIsPermutation ==
    Returned => IsPermutationOfTables(truncation_order)

\* a map with a self-reference and a two-table cycle has been resolved
C1_Witness ==
    /\ pc = "done"
    /\ Len(tables) = 3
    /\ \E t \in Range(tables) : t \in dependencies[t]
    /\ \E t, u \in Range(tables) : t # u /\ u \in dependencies[t] /\ t \in dependencies[u]

C3_AcyclicOrderVerifies ==
    (pc = "verified" /\ Acyclic) => (verify_result = TRUE /\ circular_deps = {})

\* a chain of three foreign keys has been resolved and verified
C3_Witness ==
    /\ pc = "verified"
    /\ Acyclic
    /\ \E a, b, c, d \in Range(tables) :
          b \in dependencies[a] /\ c \in dependencies[b] /\ d \in dependencies[c]
    /\ verify_result = TRUE

\* C4: on every map, cyclic ones included, verify_truncation_order accepts
\* the sequence get_truncation_order returned for the same map.
C4_ResolvedOrderVerifies ==
    pc = "verified" => verify_result = TRUE

\* C5: for every edge "y depends on x" whose x lies on no cycle, x comes
\* after y in the returned sequence, also when the map has cycles elsewhere.
C5_NonCycleTablesAfterDependents ==
    Returned =>
        \A y, x \in Range(tables) :
            (x \in dependencies[y] /\ ~OnCycle(x)) => Before(truncation_order, y, x)

\* C6: every round of the loop, normal or cycle-breaking, takes at least one
\* table out of the remaining set, and the loop ends with the list returned.
C6_RoundsTerminate ==
    /\ [][(pc = "loop" /\ pc' = "loop") =>
            Cardinality(DOMAIN remaining_deps') < Cardinality(DOMAIN remaining_deps)]_vars
    /\ (pc = "loop") ~> (pc = "done")

\* a cycle-breaking round has run and tables still remain
C6_Witness ==
    /\ pc = "loop"
    /\ forced
    /\ ordered_tables # <<>>
    /\ DOMAIN remaining_deps # {}

\* three tables whose foreign keys form one cycle through all of them
IsThreeCycle ==
    /\ Len(tables) = 3
    /\ \A t \in Range(tables) :
          /\ Cardinality(dependencies[t]) = 1
          /\ t \notin dependencies[t]
          /\ Reachable(t) = Range(tables)

DependencyEdges == {e \in Range(tables) \X Range(tables) : e[2] \in dependencies[e[1]]}

IsTestCycleSchema ==
    /\ tables = <<1, 2, 3>>
    /\ dependencies = (1 :> {3} @@ 2 :> {1} @@ 3 :> {2})

Verified == pc \in {"verified", "checked"}

\* every dependent of the table at position i that is not exempted occurs
\* at an earlier position
DependentsEarlier(ord, circ) ==
    \A i \in 1..Len(ord) : \A d \in Range(tables) :
        (ord[i] \in dependencies[d] /\ <<d, ord[i]>> \notin circ) =>
            \E j \in 1..(i - 1) : ord[j] = d

\* C9: verify_truncation_order returns True exactly when the order covers
\* the map's tables and every table comes after each of its dependents whose
\* edge is not in the detected cycle set.
C9_VerifyCharacterised ==
    Verified =>
        (verify_result = (/\ Range(order) = Range(tables)
                          /\ DependentsEarlier(order, circular_deps)))

\* a referenced table placed before the table that references it, with no
\* cycle in the map, has been rejected
C9_Witness ==
    /\ pc = "checked"
    /\ tables = <<1, 2>>
    /\ dependencies = (1 :> {} @@ 2 :> {1})
    /\ order = <<1, 2>>
    /\ verify_result = FALSE

\* C10: an order that is not the map's tables listed once each (a table
\* missing, extra or repeated) is rejected.
C10_NonPermutationRejected ==
    (pc = "checked" /\ ~IsPermutationOfTables(order)) => verify_result = FALSE

\* C11: once the map is built the two maps are exact transposes of each
\* other and hold every referenced table of the foreign-key lists once,
\* however often a table is referenced.
C11_MapsAreTransposes ==
    (pc = "idle" /\ build_error = "none") =>
        /\ DOMAIN dependencies = Range(tables)
        /\ DOMAIN reverse_dependencies = Range(tables)
        /\ \A x, y \in Range(tables) :
              (y \in reverse_dependencies[x]) <=> (x \in dependencies[y])
        /\ \A y \in Range(tables) :
              dependencies[y] = Range(inspector_foreign_keys[y])

\* table 2 has two foreign keys to table 1 and the build has completed
C11_Witness ==
    /\ pc = "idle"
    /\ tables = <<1, 2>>
    /\ inspector_foreign_keys[2] = <<1, 1>>
    /\ reverse_dependencies[1] = {2}

\* C12: the build never fails: a foreign key to a table that is not in the
\* table list is stored and the build completes.
C12_BuildNeverFails ==
    pc # "new" =>
        /\ build_error = "none"
        /\ \A y \in Range(tables) : dependencies[y] = Range(inspector_foreign_keys[y])

OnCycleEdge(a, b) == b \in dependencies[a] /\ (a = b \/ a \in Reachable(b))

\* C13: every dependency edge that lies on a cycle is in the set
\* _find_circular_dependencies returns.
C13_AllCycleEdgesFound ==
    pc = "found" =>
        \A a, b \in Range(tables) : OnCycleEdge(a, b) => <<a, b>> \in circular_deps

\* C14: every pair _find_circular_dependencies returns is a dependency edge
\* that lies on a cycle; a pair of a table with itself is a self-reference.
C14_OnlyCycleEdgesFound ==
    pc = "found" =>
        \A e \in circular_deps : OnCycleEdge(e[1], e[2])

CircularDepsComputed ==
    \/ pc = "found"
    \/ pc \in {"verified", "checked"} /\ Range(order) = Range(tables)

\* position i of the order is reached while a dependent other than the
\* table itself has not come yet
RealViolation(ord) ==
    \E i \in 1..Len(ord) : \E d \in Range(tables) \ {ord[i]} :
        /\ ord[i] \in dependencies[d]
        /\ \A j \in 1..(i - 1) : ord[j] # d

\* C15: for every table that references itself the returned set holds the
\* pair of the table with itself, and verify_truncation_order rejects an
\* order only when some other table's dependency is out of order.
C15_SelfReferenceExempt ==
    CircularDepsComputed =>
        /\ \A t \in Range(tables) : t \in dependencies[t] => <<t, t>> \in circular_deps
        /\ (pc \in {"verified", "checked"} /\ verify_result = FALSE) => RealViolation(order)

\* a self-referencing table and one that references it, in a valid order,
\* have been accepted
C15_Witness ==
    /\ pc = "checked"
    /\ tables = <<1, 2>>
    /\ dependencies = (1 :> {1} @@ 2 :> {1})
    /\ order = <<2, 1>>
    /\ verify_result = TRUE

\* ------------------------------------------------------------------------
\* Properties of the retry and timeout wrappers
\* ------------------------------------------------------------------------
Calls == SelectSeq(events, LAMBDA ev : ev.kind = "call")

Sleeps == SelectSeq(events, LAMBDA ev : ev.kind = "sleep")

CallsAndSleeps == SelectSeq(events, LAMBDA ev : ev.kind \in {"call", "sleep"})

Retrying == cfg.mode \in {"retry", "safe"}

Finished == wpc \in {"returned", "raised"}

\* calls and sleeps alternate, starting with invocation 0: every sleep lies
\* between two consecutive invocations
SleepsBetweenCalls(cs) ==
    \A i \in 1..Len(cs) :
        IF i % 2 = 1 THEN cs[i].kind = "call" /\ cs[i].attempt = (i - 1) \div 2
        ELSE cs[i].kind = "sleep" /\ i < Len(cs)

\* C16: after k transient failures (k <= max_retries) the operation is
\* invoked again, and when that invocation succeeds the wrapper returns its
\* value after exactly k + 1 invocations and k sleeps, each sleep between two
\* consecutive invocations.
C16_SuccessAfterTransientFailures ==
    Retrying =>
        /\ (wpc = "running" /\ Len(Calls) <= cfg.max_retries) =>
              (attempt = Len(Calls) /\ attempt <= cfg.max_retries)
        /\ (Finished /\ func_result.kind = "value") =>
              /\ wpc = "returned"
              /\ outcome = [kind |-> "value", value |-> func_result.value]
              /\ \A i \in 1..(Len(Calls) - 1) : Calls[i].result = "retriable"
              /\ Len(Sleeps) = Len(Calls) - 1
              /\ Len(Calls) <= cfg.max_retries + 1
              /\ SleepsBetweenCalls(CallsAndSleeps)

\* three transient failures, then success, with max_retries = 3
C16_Witness ==
    /\ cfg.mode = "retry"
    /\ cfg.max_retries = 3
    /\ wpc = "returned"
    /\ Len(Calls) = 4
    /\ Len(Sleeps) = 3
    /\ outcome.value = "v2"

AllCallsTransient == \A i \in 1..Len(Calls) : Calls[i].result = "retriable"

\* C17: when every attempt fails with a transient error the operation is
\* invoked max_retries + 1 times with max_retries sleeps, none after the
\* final attempt, and MaxRetriesExceededError is raised from the failure of
\* the last attempt.
C17_ExhaustedRetries ==
    (Retrying /\ Finished /\ Calls # <<>> /\ AllCallsTransient) =>
        /\ Len(Calls) = cfg.max_retries + 1
        /\ Len(Sleeps) = cfg.max_retries
        /\ events[Len(events)].kind = "call"
        /\ SleepsBetweenCalls(CallsAndSleeps)
        /\ wpc = "raised"
        /\ outcome.kind = "error"
        /\ outcome.exc.cls = "MaxRetriesExceededError"
        /\ outcome.exc.cause = Invoked(func_result, cfg).exc
        /\ outcome.exc.cause.id = cfg.max_retries

C17_Witness ==
    /\ cfg.mode = "retry"
    /\ cfg.max_retries = 2
    /\ wpc = "raised"
    /\ Len(Calls) = 3
    /\ Len(Sleeps) = 2
    /\ outcome.exc.cls = "MaxRetriesExceededError"

\* transient: an instance of a retriable class and of no non-retriable one
Transient(e) == e.cls \in {"OperationalError", "IntegrityError", "DBAPIError"}

\* C18: when an attempt, the first or a later one, fails with an error that
\* is not transient, no attempt and no sleep follows and the caller gets
\* that very error, not MaxRetriesExceededError.
C18_PermanentFailsFast ==
    (Retrying /\ func_result.kind = "error"
              /\ ~Transient(Invoked(func_result, cfg).exc)) =>
        /\ wpc = "raised"
        /\ events[Len(events)].kind = "call"
        /\ events[Len(events)].attempt = Len(Calls) - 1
        /\ outcome = [kind |-> "error", exc |-> Invoked(func_result, cfg).exc]
        /\ outcome.exc.cls # "MaxRetriesExceededError"
        /\ cfg.mode = "retry" => outcome.exc = func_result.exc

\* an unclassified error on the second attempt has reached the caller
C18_Witness ==
    /\ cfg.mode = "retry"
    /\ wpc = "raised"
    /\ Len(Calls) = 2
    /\ Len(Sleeps) = 1
    /\ outcome.exc.cls = "Exception"
    /\ outcome.exc.id = 1

RECURSIVE Power(_, _)
Power(b, k) == IF k = 0 THEN 1 ELSE b * Power(b, k - 1)

\* C19: the sleep after failed attempt k lasts
\* min(initial_delay * backoff_factor^k, max_delay).
C19_SleepIsCappedBackoff ==
    Retrying =>
        \A i \in 1..Len(Sleeps) :
            LET uncapped == cfg.initial_delay * Power(cfg.backoff_factor, i - 1)
            IN  Sleeps[i].seconds =
                    IF uncapped <= cfg.max_delay THEN uncapped ELSE cfg.max_delay

TimedOut == func_result.elapsed > cfg.timeout

IsTimeoutError(e) == e.cls = "DatabaseTimeoutError" \/ e.timeout_text

\* C21: in combined mode, once an attempt has failed after exceeding the
\* timeout, the operation is not invoked again and the caller gets a timeout
\* error, not MaxRetriesExceededError, whatever the failure and max_retries.
C21_TimeoutTakesPrecedence ==
    (cfg.mode = "safe" /\ func_result.kind = "error" /\ TimedOut) =>
        /\ wpc = "raised"
        /\ events[Len(events)].kind = "call"
        /\ outcome.kind = "error"
        /\ outcome.exc.cls # "MaxRetriesExceededError"
        /\ IsTimeoutError(outcome.exc)

\* duration of the sleep that followed the latest invocation, in 1/2000 s
LastSleep ==
    IF events # <<>> /\ events[Len(events)].kind = "sleep"
    THEN events[Len(events)].seconds * 2000 ELSE 0

\* C22: in combined mode, before each invocation of the operation on a
\* session the statement timeout int(timeout * 1000) ms is set on it (and on
\* nothing when there is no session), and each attempt's elapsed time is
\* measured from the start of that attempt: DatabaseTimeoutError is raised
\* exactly on account of the latest attempt's own duration.
C22_EachAttemptTimeBounded ==
    cfg.mode = "safe" =>
        /\ \A i \in 1..Len(events) :
              /\ (events[i].kind = "call" /\ cfg.has_session) =>
                    /\ i > 1
                    /\ events[i - 1].kind = "set_timeout"
                    /\ events[i - 1].ms * 2000 <= cfg.timeout * 1000
                    /\ cfg.timeout * 1000 < (events[i - 1].ms + 1) * 2000
              /\ events[i].kind = "set_timeout" =>
                    /\ cfg.has_session
                    /\ i < Len(events)
                    /\ events[i + 1].kind = "call"
        /\ Calls # <<>> => start_time = clock - LastSleep - func_result.elapsed
        /\ (outcome.kind = "error" /\ outcome.exc.cls = "DatabaseTimeoutError") =>
              (TimedOut /\ outcome.exc.cause = func_result.exc)
        /\ (func_result.kind = "error" /\ ~func_result.exc.timeout_text /\ TimedOut) =>
              (outcome.kind = "error" /\ outcome.exc.cls = "DatabaseTimeoutError")

\* the third attempt on a session, after two sleeps, ran within 1.5 ms and
\* its own error reached the caller
C22_Witness ==
    /\ cfg.mode = "safe"
    /\ cfg.has_session
    /\ cfg.timeout = 3
    /\ Len(Calls) = 3
    /\ Len(Sleeps) = 2
    /\ events[Len(events) - 1] = [kind |-> "set_timeout", ms |-> 1]
    /\ ~TimedOut
    /\ wpc = "raised"
    /\ outcome.exc.cls = "Exception"
    /\ clock > 2000

\* ------------------------------------------------------------------------
\* Properties of the cleanup functions
\* ------------------------------------------------------------------------
Truncations == SelectSeq(statements, LAMBDA st : st.sql = "TRUNCATE")

TruncatedTables == {Truncations[i].table : i \in 1..Len(Truncations)}

TruncatedInOrder == [i \in 1..Len(Truncations) |-> Truncations[i].table]

\* the requested tables, in the planned order
RequestedInOrder == SelectSeq(truncation_order, LAMBDA t : t \in Range(table_names))

\* the statements so far are SET CONSTRAINTS ALL DEFERRED, then TRUNCATEs,
\* then at most one SET CONSTRAINTS ALL IMMEDIATE, which is the last one
DeferredThroughout ==
    /\ statements # <<>> => statements[1].sql = "SET CONSTRAINTS ALL DEFERRED"
    /\ \A i \in 2..Len(statements) :
          \/ statements[i].sql = "TRUNCATE"
          \/ statements[i].sql = "SET CONSTRAINTS ALL IMMEDIATE" /\ i = Len(statements)
    /\ tx = "committed" =>
          (Len(statements) >= 2
             /\ statements[Len(statements)].sql = "SET CONSTRAINTS ALL IMMEDIATE")

\* C23: every statement of truncate_tables is executed in its one open
\* transaction, in the order SET CONSTRAINTS ALL DEFERRED, the TRUNCATEs, SET
\* CONSTRAINTS ALL IMMEDIATE, and the commit comes after the latter: no
\* TRUNCATE is issued before the former or after the latter.
C23_TruncatesWhileDeferred ==
    [][/\ DeferredThroughout'
       /\ statements' # statements => (tx = "open" /\ tx' \in {"open", "rolled_back"})
       /\ tx' # tx => (tx = "none" /\ tx' = "open") \/ (tx = "open" /\ tx' # "none")
       /\ (tx' = "committed" /\ tx # "committed") =>
              (statements' = statements /\ TruncatedInOrder = RequestedInOrder)]_vars

\* all three requested tables were truncated and the transaction committed
C23_Witness ==
    /\ cpc = "done"
    /\ tx = "committed"
    /\ Len(statements) = 5
    /\ Len(Truncations) = 3
    /\ dependencies # <<{}, {}, {}>>

\* tables x depends on, directly or through other tables
DependsOn(x) == Reachable(x)

\* C24: when the call has committed, the tables that received a TRUNCATE are
\* exactly the requested tables and the tables that depend on one of them.
C24_DependentsTruncatedToo ==
    cpc = "done" =>
        TruncatedTables =
            Range(table_names)
                \cup {t \in Range(tables) : DependsOn(t) \cap Range(table_names) # {}}

\* C25: verify_clean_state returns a report of four fields whatever the
\* contents: tables_empty is FALSE exactly when some table has a row,
\* sequences_reset is FALSE exactly when some sequence's last value is not 1,
\* settings_correct is FALSE exactly when the search path does not contain
\* "public".
C25_ReportNotRaise ==
    /\ cpc \in {"ready", "reported"}
    /\ cpc = "reported" =>
          /\ DOMAIN results =
                {"tables_exist", "tables_empty", "sequences_reset", "settings_correct"}
          /\ results.tables_empty = FALSE <=>
                (\E t \in 1..Len(tables) : row_counts[tables[t]] >= 1)
          /\ results.sequences_reset = FALSE <=>
                ({sequences[i] : i \in 1..Len(sequences)} \ {1} # {})
          /\ results.settings_correct = FALSE <=>
                (\A i, j \in 1..Len(search_path) :
                    SubSeq(search_path, i, j) # <<"p", "u", "b", "l", "i", "c">>)

\* a table with rows, a sequence at 0 and the search path "private": three
\* fields are FALSE and the report is returned all the same
C25_Witness ==
    /\ cpc = "reported"
    /\ \E t \in 1..Len(tables) : row_counts[t] = 2
    /\ sequences = <<1, 0>>
    /\ search_path = <<"p", "r", "i", "v", "a", "t", "e">>
    /\ results = [tables_exist |-> TRUE, tables_empty |-> FALSE,
                  sequences_reset |-> FALSE, settings_correct |-> FALSE]

\* ------------------------------------------------------------------------
\* Properties of DatabaseSession
\* ------------------------------------------------------------------------
Exited == {i \in 1..Len(sessions) : sessions[i].state = "exited"}

Called(i, method) == \E k \in 1..Len(sessions[i].calls) : sessions[i].calls[k].method = method

\* C26 as stated: a context left without an exception has its session
\* committed and not rolled back; one left with an exception has it rolled
\* back, never committed, and the exception reaches the caller.
C26_CommitOrRollback ==
    \A i \in Exited :
        IF sessions[i].body = NoError
        THEN Called(i, "commit") /\ ~Called(i, "rollback")
        ELSE /\ Called(i, "rollback")
             /\ ~Called(i, "commit")
             /\ sessions[i].raised = sessions[i].body

\* C26 as amended: a context left without an exception has commit called
\* first, and rollback is called only after a commit that failed with
\* SQLAlchemyError, whose error then reaches the caller unless the rollback
\* fails too; one left with an exception has rollback called and commit
\* never, and the exception reaches the caller unless the rollback fails, in
\* which case the rollback's error does.
C26_CommitOrRollbackOnFailure ==
    \A i \in Exited :
        LET ses == sessions[i]
        IN  IF ses.body = NoError
            THEN /\ ses.calls[1].method = "commit"
                 /\ Called(i, "rollback") <=> ses.calls[1].result = "SQLAlchemyError"
                 /\ ses.calls[1].result = "ok" => ses.raised = NoError
                 /\ ses.calls[1].result # "ok" =>
                       \/ ses.raised = [cls |-> ses.calls[1].result, origin |-> "commit"]
                       \/ /\ ses.raised.origin = "rollback"
                          /\ ses.calls[Len(ses.calls)] = [method |-> "rollback",
                                                           result |-> ses.raised.cls]
            ELSE /\ ses.calls[1].method = "rollback"
                 /\ ~Called(i, "commit")
                 /\ ses.calls[1].result = "ok" => ses.raised = ses.body
                 /\ ses.calls[1].result # "ok" =>
                       ses.raised = [cls |-> ses.calls[1].result, origin |-> "rollback"]

\* the first context was committed, the second was left with ValueError and
\* rolled back, the third was rolled back after its commit failed
C26_Witness ==
    /\ Len(sessions) = 3
    /\ spc = "out"
    /\ sessions[1].body = NoError /\ sessions[1].raised = NoError
    /\ sessions[2].body.cls = "ValueError" /\ sessions[2].raised.cls = "ValueError"
    /\ Called(2, "rollback")
    /\ sessions[3].body = NoError /\ sessions[3].raised.origin = "commit"
    /\ Called(3, "rollback")

\* C27: the session of every context that was left has been closed, also
\* when the commit failed.
C27_AlwaysClosed == \A i \in Exited : Called(i, "close")

\* ------------------------------------------------------------------------
\* Further properties of the resolver and the cycle finder
\* ------------------------------------------------------------------------
Outstanding(t) == Cardinality(remaining_deps[t])

\* the remaining tables with the fewest outstanding dependencies, in the
\* order of the table list
LeastOutstanding ==
    SelectSeq(tables, LAMBDA t : /\ t \in DOMAIN remaining_deps
                                 /\ \A u \in DOMAIN remaining_deps :
                                       Outstanding(t) <= Outstanding(u))

\* C28: a cycle-breaking round emits exactly the remaining tables whose
\* number of outstanding dependencies is the minimum among the remaining
\* tables, in table-list order.
C28_ForcedRoundTakesAllMinimal ==
    [][(pc = "loop" /\ pc' = "loop" /\ forced') =>
          ordered_tables' = ordered_tables \o LeastOutstanding]_vars

\* the first round was a cycle-breaking one that emitted two of three tables
C28_Witness ==
    /\ pc = "loop"
    /\ forced
    /\ Len(tables) = 3
    /\ Len(ordered_tables) = 2
    /\ \A t \in Range(tables) : dependencies[t] # {}
    /\ Cardinality(dependencies[ordered_tables[1]]) = 1
    /\ Cardinality(dependencies[ordered_tables[2]]) = 1

\* C29: no round is a cycle-breaking one when the map is acyclic, some
\* round is when it has a cycle (a self-reference included), and on an
\* acyclic map a table is emitted only with no outstanding dependency.
C29_ForcedIffCyclic ==
    /\ [](forced => ~Acyclic)
    /\ (pc = "loop" /\ ordered_tables = <<>> /\ ~Acyclic) ~> forced
    /\ [][(Acyclic /\ pc = "loop") =>
            \A i \in (Len(ordered_tables) + 1)..Len(ordered_tables') :
                remaining_deps[ordered_tables'[i]] = {}]_vars

\* a self-reference alone made a round a cycle-breaking one
C29_Witness ==
    /\ forced
    /\ pc = "loop"
    /\ \E t \in Range(tables) : dependencies[t] = {t}
    /\ \A t \in Range(tables) : dependencies[t] \subseteq {t}

\* _find_circular_dependencies without the skip of start tables that
\* already have a recorded pair
RECURSIVE FindFromEveryStart(_, _, _)
FindFromEveryStart(circ, i, io) ==
    IF i > Len(tables) THEN circ
    ELSE FindFromEveryStart(dfs([visited |-> {}, path |-> <<>>, circular |-> circ],
                                tables[i], io).circular,
                            i + 1, io)

\* C30: what _find_circular_dependencies returns is what the same procedure
\* without the skip returns (for some order of iteration over the sets).
C30_SkipIsPureOptimization ==
    pc = "found" =>
        \E io \in IterOrders : circular_deps = FindFromEveryStart(SelfReferences, 1, io)

\* C31: the set _find_circular_dependencies returned, and the result of
\* verify_truncation_order, are what every other order of iteration over
\* the dependency sets gives on the same map and candidate order.
C31_IterationOrderIrrelevant ==
    /\ pc = "found" =>
          \A io \in IterOrders : circular_deps = FindCircularDependencies(io)
    /\ pc \in {"verified", "checked"} =>
          \A io \in IterOrders :
              verify_result = VerifyTruncationOrder(order, FindCircularDependencies(io))

\* ------------------------------------------------------------------------
\* Calls made one after the other on one TableDependencyMap
\* ------------------------------------------------------------------------
\* mutant: remaining_deps is self.dependencies itself, which the loop empties
SelfDependenciesAfter_Aliased(deps, rem) == rem

\* self.dependencies after get_truncation_order, whose loop ends with
\* remaining_deps = rem: the loop pops and discards in a copy made of new
\* sets in a new dict
SelfDependenciesAfter(deps, rem) == deps

\* the orders a caller hands to verify_truncation_order: the list the
\* resolver returned last (empty before its first call) and its reverse
HandedBack == {truncation_order, Reverse(truncation_order)}

CallsInit ==
    /\ \E n \in 0..MaxCallTables : SchemaWith(n, {}, 0, MaxCallFks)
    /\ Idle

\* get_truncation_order, from its first line to its return
CallGetTruncationOrder ==
    /\ calls < MaxCalls
    /\ calls' = calls + 1
    /\ pc' = "done"
    /\ truncation_order' = ResolveFrom(dependencies, <<>>)
    /\ dependencies' = SelfDependenciesAfter(dependencies, <<>>)
    /\ UNCHANGED <<inspector_foreign_keys, build_error, tables, reverse_dependencies>>
    /\ UNCHANGED <<remaining_deps, ordered_tables, forced, order, circular_deps,
                   verify_result, dependents_of, dependent_tables>>
    /\ UNCHANGED <<wrapVars, dbVars, fixtureVars>>

\* verify_truncation_order
CallVerifyTruncationOrder ==
    /\ calls < MaxCalls
    /\ calls' = calls + 1
    /\ pc' = "checked"
    /\ \E ord \in HandedBack : Verify(ord)
    /\ UNCHANGED <<mapVars, remaining_deps, ordered_tables, forced, truncation_order,
                   dependents_of, dependent_tables>>
    /\ UNCHANGED <<wrapVars, dbVars, fixtureVars>>

\* _find_circular_dependencies
CallFindCircularDependencies ==
    /\ calls < MaxCalls
    /\ calls' = calls + 1
    /\ pc' = "found"
    /\ \E io \in IterOrders : circular_deps' = FindCircularDependencies(io)
    /\ UNCHANGED <<mapVars, remaining_deps, ordered_tables, forced, truncation_order,
                   order, verify_result, dependents_of, dependent_tables>>
    /\ UNCHANGED <<wrapVars, dbVars, fixtureVars>>

\* get_dependent_tables, for a table of the map or a name that is not in it
CallGetDependentTables ==
    /\ calls < MaxCalls
    /\ calls' = calls + 1
    /\ pc' = "asked"
    /\ \E t \in Range(tables) \cup {NoName} :
          /\ dependents_of' = t
          /\ dependent_tables' = GetDependentTables(t)
    /\ UNCHANGED <<mapVars, remaining_deps, ordered_tables, forced, truncation_order,
                   order, circular_deps, verify_result>>
    /\ UNCHANGED <<wrapVars, dbVars, fixtureVars>>

CallsNext ==
    \/ CallGetTruncationOrder
    \/ CallVerifyTruncationOrder
    \/ CallFindCircularDependencies
    \/ CallGetDependentTables

CallsSpec == CallsInit /\ [][CallsNext]_vars

C33_OnlyDirectDependents ==
    (pc = "asked" /\ dependents_of \in Range(tables)) =>
        dependent_tables = {t \in Range(tables) : dependents_of \in dependencies[t]}

\* the map as _build_dependencies makes it from what the inspector reported
Fresh == BuildDependencies(tables, inspector_foreign_keys)

\* the map has the value it was built with
MapAsBuilt ==
    /\ dependencies = Fresh.dependencies
    /\ reverse_dependencies = Fresh.reverse_dependencies

C34_TruncatesInResolverOrder ==
    cpc # "off" =>
        \A i, j \in 1..Len(TruncatedInOrder) :
            i < j => Before(ResolveFrom(dependencies, <<>>),
                            TruncatedInOrder[i], TruncatedInOrder[j])

\* a call for two of three tables, one referencing the other, has committed
\* with a TRUNCATE for each of the two
C34_Witness ==
    /\ cpc = "done"
    /\ Len(table_names) = 2
    /\ Len(tables) = 3
    /\ Len(Truncations) = 2
    /\ \E i, j \in 1..2 : table_names[i] \in dependencies[table_names[j]]

\* a statement syntax error or a data error: sqlalchemy.exc.ProgrammingError
\* and DataError are DatabaseError subclasses and so DBAPIError instances,
\* which puts them in the non-retriable tuple and in the retriable one
InBothTuples(e) == e.cls \in {"ProgrammingError", "DataError"}

\* C36: when the retry wrapper catches an exception that is an instance of a
\* non-retriable class and of a retriable class, the caller gets that very
\* exception from the attempt that raised it: no sleep and no attempt follows.
C36_BothTuplesIsNonRetriable ==
    (Retrying /\ func_result.kind = "error"
              /\ InBothTuples(Invoked(func_result, cfg).exc)) =>
        /\ wpc = "raised"
        /\ outcome = [kind |-> "error", exc |-> Invoked(func_result, cfg).exc]
        /\ outcome.exc.id = Len(Calls) - 1
        /\ events[Len(events)] = CallsAndSleeps[Len(CallsAndSleeps)]
        /\ events[Len(events)].kind = "call"
        /\ Len(Sleeps) = Len(Calls) - 1

\* a ProgrammingError of the second attempt, made after one sleep, has
\* reached the caller while retries were left
C36_Witness ==
    /\ cfg.mode = "retry"
    /\ cfg.max_retries > 1
    /\ wpc = "raised"
    /\ Len(Calls) = 2
    /\ Len(Sleeps) = 1
    /\ outcome.exc.cls = "ProgrammingError"
    /\ outcome.exc.id = 1

\* C37: whatever max_retries is, a finished call of the retry wrapper has
\* invoked the wrapped function at least once and has not raised the
\* RuntimeError of the statement after the loop.
C37_InvokedAtLeastOnce ==
    (Retrying /\ Finished) =>
        /\ Len(Calls) >= 1
        /\ ~(outcome.kind = "error" /\ outcome.exc.cls = "RuntimeError")

\* ------------------------------------------------------------------------
\* create_cleanup_fixture: the generator _cleanup_fixture around one test
\* ------------------------------------------------------------------------
\* what get_closest_marker("truncate_tables") gives: no marker, a marker
\* without arguments, or a marker whose first argument is a list of names
TruncateMarkers ==
    {[present |-> FALSE, args |-> <<>>], [present |-> TRUE, args |-> <<>>]}
        \cup {[present |-> TRUE, args |-> <<names>>] :
                  names \in SeqsUpTo(1..MaxMarkerTables, MaxMarkerTables)}

Markers ==
    [clean_before : BOOLEAN, clean_after : BOOLEAN, truncate_tables : TruncateMarkers]

\* tables_to_truncate: None unless the marker is there and has arguments
TablesToTruncate(mk) ==
    IF mk.truncate_tables.present /\ mk.truncate_tables.args # <<>>
    THEN [none |-> FALSE, names |-> mk.truncate_tables.args[1]]
    ELSE [none |-> TRUE, names |-> <<>>]

\* `if tables_to_truncate`: None and the empty list are false
Truthy(t) == ~t.none /\ Len(t.names) > 0

\* the call in either branch of `if tables_to_truncate`
CleaningCall(mk) ==
    IF Truthy(TablesToTruncate(mk))
    THEN [call |-> "truncate_tables", names |-> TablesToTruncate(mk).names]
    ELSE [call |-> "clean_database", names |-> <<>>]

\* mutant: the database is cleaned before every test, marked or not
CleanBefore_Always(mk) == TRUE

\* clean_before: the test has the marker
CleanBefore(mk) == mk.clean_before

\* clean_after: the test has the marker
CleanAfter(mk) == mk.clean_after

\* a call and whether it returned (ok) or raised
FixtureEvent(c, ok) == [call |-> c.call, names |-> c.names, ok |-> ok]

\* the test function between the two halves of the fixture
TestBody == [call |-> "test", names |-> <<>>]

FixtureInit ==
    /\ fpc = "setup"
    /\ markers \in Markers
    /\ fixture_events = <<>>
    /\ WrapOff
    /\ DbOff
    /\ NoCalls
    /\ pc = "new"
    /\ inspector_foreign_keys = <<>>
    /\ build_error = "none"
    /\ tables = <<>>
    /\ dependencies = <<>>
    /\ reverse_dependencies = <<>>
    /\ remaining_deps = <<>>
    /\ ordered_tables = <<>>
    /\ forced = FALSE
    /\ truncation_order = <<>>
    /\ order = <<>>
    /\ circular_deps = {}
    /\ verify_result = FALSE

\* the fixture up to its yield: a cleaning call that raises is a setup
\* error, and the test does not run
FixtureSetup ==
    /\ fpc = "setup"
    /\ IF CleanBefore(markers)
       THEN \E ok \in BOOLEAN :
               /\ fixture_events' = Append(fixture_events,
                                           FixtureEvent(CleaningCall(markers), ok))
               /\ fpc' = IF ok THEN "body" ELSE "error"
       ELSE /\ fpc' = "body"
            /\ UNCHANGED fixture_events
    /\ UNCHANGED <<markers, callVars, mapVars, pc, remaining_deps, ordered_tables, forced,
                   truncation_order, order, circular_deps, verify_result>>
    /\ UNCHANGED <<wrapVars, dbVars>>

\* yield: the test runs, and passes or fails; the generator is resumed
\* either way
FixtureYield ==
    /\ fpc = "body"
    /\ \E passed \in BOOLEAN :
          fixture_events' = Append(fixture_events, FixtureEvent(TestBody, passed))
    /\ fpc' = "teardown"
    /\ UNCHANGED <<markers, callVars, mapVars, pc, remaining_deps, ordered_tables, forced,
                   truncation_order, order, circular_deps, verify_result>>
    /\ UNCHANGED <<wrapVars, dbVars>>

\* the fixture after its yield
FixtureTeardown ==
    /\ fpc = "teardown"
    /\ IF CleanAfter(markers)
       THEN \E ok \in BOOLEAN :
               /\ fixture_events' = Append(fixture_events,
                                           FixtureEvent(CleaningCall(markers), ok))
               /\ fpc' = IF ok THEN "finished" ELSE "error"
       ELSE /\ fpc' = "finished"
            /\ UNCHANGED fixture_events
    /\ UNCHANGED <<markers, callVars, mapVars, pc, remaining_deps, ordered_tables, forced,
                   truncation_order, order, circular_deps, verify_result>>
    /\ UNCHANGED <<wrapVars, dbVars>>

FixtureNext ==
    \/ FixtureSetup
    \/ FixtureYield
    \/ FixtureTeardown

FixtureSpec == FixtureInit /\ [][FixtureNext]_vars

\* position of the test body among the events (0: it has not run)
BodyAt ==
    IF \E i \in 1..Len(fixture_events) : fixture_events[i].call = "test"
    THEN CHOOSE i \in 1..Len(fixture_events) : fixture_events[i].call = "test"
    ELSE 0

IsCleaning(ev) == ev.call \in {"truncate_tables", "clean_database"}

\* number of cleaning calls made before the test body started, and after it
CleaningsBefore ==
    Cardinality({i \in 1..Len(fixture_events) :
                    IsCleaning(fixture_events[i]) /\ (BodyAt = 0 \/ i < BodyAt)})

CleaningsAfter ==
    Cardinality({i \in 1..Len(fixture_events) :
                    IsCleaning(fixture_events[i]) /\ BodyAt # 0 /\ i > BodyAt})

\* C38: a test whose body runs had one cleaning call before it when it is
\* marked clean_before and none when it is not; once the fixture is over it
\* had one cleaning call after the body when it is marked clean_after and
\* none when it is not; so a clean_before test is not cleaned afterwards, a
\* clean_after test is not cleaned before, and a test with neither marker
\* is not cleaned at all.
C38_CleanedAsMarked ==
    /\ BodyAt # 0 => CleaningsBefore = (IF markers.clean_before THEN 1 ELSE 0)
    /\ CleaningsBefore <= (IF markers.clean_before THEN 1 ELSE 0)
    /\ fpc \in {"teardown", "body", "setup"} => CleaningsAfter = 0
    /\ fpc = "finished" => CleaningsAfter = (IF markers.clean_after THEN 1 ELSE 0)
    /\ CleaningsAfter <= (IF markers.clean_after THEN 1 ELSE 0)

\* a test marked clean_before only is over: one cleaning call, then the body
C38_Witness ==
    /\ fpc = "finished"
    /\ markers.clean_before
    /\ ~markers.clean_after
    /\ Len(fixture_events) = 2
    /\ fixture_events[1].call = "clean_database"
    /\ fixture_events[2].call = "test"

\* C39: when a test carries the truncate_tables marker with a list of tables
\* and neither clean_before nor clean_after, the fixture has called
\* truncate_tables for exactly the tables of the list by the time it is over.
C39_TruncateMarkerAloneTruncates ==
    (/\ fpc = "finished"
     /\ ~markers.clean_before
     /\ ~markers.clean_after
     /\ Truthy(TablesToTruncate(markers))) =>
        \E i \in 1..Len(fixture_events) :
            /\ fixture_events[i].call = "truncate_tables"
            /\ fixture_events[i].names = markers.truncate_tables.args[1]

\* C40: every report verify_clean_state or clean_database has returned has
\* tables_exist TRUE, whatever the tables, rows, sequences and search path.
C40_TablesExistAlwaysTrue ==
    cpc = "reported" =>
        /\ "tables_exist" \in DOMAIN results
        /\ results.tables_exist = TRUE

\* a report on a database in which no table was found
C40_Witness ==
    /\ cpc = "reported"
    /\ tables = <<>>
    /\ results.tables_exist

====
